---------------------------- MODULE Spec2Model ----------------------------
(***************************************************************************)
(* Playback navigation state machine of manim-slides' presenter            *)
(* (src/manim_slides/present/player.py, class PresentationPlayer).         *)
(*                                                                         *)
(* The player is a QMediaPlayer subclass.  Its state is the Python fields  *)
(* slide_index / playingForward plus the state of the underlying media     *)
(* primitive (source, loops, playbackState, mediaStatus, position).        *)
(* Python list indices are 0-based; slides is a TLA+ sequence, so segment  *)
(* i of the program is slides[i + 1].                                      *)
(***************************************************************************)
EXTENDS Integers, Sequences, FiniteSets, TLC

\* ------------------------------------------------------------------ bounds
MaxSlides == 3      \* longest segment sequence explored
Dur == 2            \* duration of every asset, in position ticks
MaxScenes == 2      \* most scene groups handed to the loader
MaxSceneSlides == 2 \* most segments in one scene group
MaxStartAt == 1     \* largest number given in a start-at option

\* ------------------------------------------------------------------- state
VARIABLES
    slides,                 \* PresentationPlayer.slides: Seq of [loop, auto_next]
    exit_after_last_slide,  \* PresentationPlayer.exit_after_last_slide
    start_slide,            \* constructor argument start_slide
    start_paused,           \* constructor argument start_paused
                            \* (both are locals of __init__: no handler
                            \* sees them once construction has returned)
    slide_index,            \* PresentationPlayer.slide_index
    playingForward,         \* PresentationPlayer.playingForward
    source,                 \* QMediaPlayer source: [index, reversed]
    loops,                  \* QMediaPlayer loops: -1 (infinite) or 1
    playbackState,          \* QMediaPlayer.playbackState()
    mediaStatus,            \* QMediaPlayer.mediaStatus()
    position,               \* QMediaPlayer.position()
    terminated,             \* exit(0) was called
    emitted,                \* slide_load_signal emissions of the last handler
    requests,               \* indices passed to load_slide by the last handler
    lastOp,                 \* the handler that ran last
    pre,                    \* the player as the last handler found it
    settledFrom,            \* settled index a previous() started from, kept
                            \* through the next() that follows it at once
    startup,                \* present(): options, scene groups and what
                            \* startup has computed from them so far
    view,                   \* presenter view: the progress update it made
                            \* since the last handler ran, if any
    commands                \* the presenter may still issue navigation
                            \* commands (key presses)

vars == <<slides, exit_after_last_slide, start_slide, start_paused,
          slide_index, playingForward, source, loops, playbackState,
          mediaStatus, position, terminated, emitted, requests, lastOp,
          pre, settledFrom, startup, view, commands>>

NoIndex == 0 - 9    \* "no value" marker for index-valued history variables

\* PresentationSlide: only the flags the navigation logic reads
PresentationSlide == [loop : BOOLEAN, auto_next : BOOLEAN]

N == Len(slides)

\* Python list indexing self.slides[i]: a negative i counts from the end
SlideAt(i) == slides[(IF i < 0 THEN N + i ELSE i) + 1]

\* the player as one value, so that handlers compose as functions
Cur ==
    [slide_index |-> slide_index, playingForward |-> playingForward,
     source |-> source, loops |-> loops, playbackState |-> playbackState,
     mediaStatus |-> mediaStatus, position |-> position,
     terminated |-> terminated, emitted |-> 0, requests |-> <<>>]

\* ------------------------------------------------ the media primitive (Qt)
\* QMediaPlayer as the player uses it.  Every asset lasts Dur ticks (the
\* reverse asset has the duration of the forward one).  A seek moves the
\* position and nothing else; EndOfMedia is reported only by playback
\* running into the end of an asset that does not repeat.
NoSource == [index |-> NoIndex, reversed |-> FALSE]

\* QMediaPlayer.setSource: stops the player and rewinds to the start
setSource(p, url) ==
    [p EXCEPT !.source = url, !.playbackState = "StoppedState",
              !.mediaStatus = "LoadedMedia", !.position = 0]

setLoops(p, n) == [p EXCEPT !.loops = n]

setPosition(p, pos) == [p EXCEPT !.position = pos]

pause(p) ==
    [p EXCEPT !.playbackState = "PausedState", !.mediaStatus = "BufferedMedia"]

\* QMediaPlayer.play: playing a finished medium restarts it
play(p) ==
    [p EXCEPT !.playbackState = "PlayingState",
              !.mediaStatus = "BufferedMedia",
              !.position = IF p.mediaStatus = "EndOfMedia" THEN 0 ELSE @]

isPlaying(p) == p.playbackState = "PlayingState"

\* ------------------------------------------------------ PresentationPlayer
isLooping(p) == isPlaying(p) /\ SlideAt(p.slide_index).loop

isPlayingForward(p) == isPlaying(p) /\ p.playingForward

isPlayingBackward(p) == isPlaying(p) /\ ~p.playingForward

\* load_slide announcing a slide change even for a rejected index
load_slide_emitAlways(p, index, paused, reversed, end) ==
    LET q == [p EXCEPT !.requests = Append(@, index)] IN
    IF index >= N \/ index < 0 THEN [q EXCEPT !.emitted = @ + 1]
    ELSE
        LET slide == SlideAt(index)
            s1 == [q EXCEPT !.slide_index = index,
                            !.playingForward = ~reversed]
            s2 == setSource(s1, [index |-> index, reversed |-> reversed])
            s3 == setLoops(s2, IF slide.loop /\ ~reversed THEN 0 - 1 ELSE 1)
            s4 == IF end THEN setPosition(s3, Dur) ELSE s3
            s5 == IF paused THEN pause(s4) ELSE play(s4)
        IN  [s5 EXCEPT !.emitted = @ + 1]

\* load_slide that never asks the primitive to repeat
load_slide_singlePlay(p, index, paused, reversed, end) ==
    LET q == [p EXCEPT !.requests = Append(@, index)] IN
    IF index >= N THEN q
    ELSE IF index < 0 THEN q
    ELSE
        LET s1 == [q EXCEPT !.slide_index = index,
                            !.playingForward = ~reversed]
            s2 == setSource(s1, [index |-> index, reversed |-> reversed])
            s3 == setLoops(s2, 1)
            s4 == IF end THEN setPosition(s3, Dur) ELSE s3
            s5 == IF paused THEN pause(s4) ELSE play(s4)
        IN  [s5 EXCEPT !.emitted = @ + 1]

\* load_slide leaving the direction flag as it was
load_slide_keepDirection(p, index, paused, reversed, end) ==
    LET q == [p EXCEPT !.requests = Append(@, index)] IN
    IF index >= N THEN q
    ELSE IF index < 0 THEN q
    ELSE
        LET slide == SlideAt(index)
            s1 == [q EXCEPT !.slide_index = index]
            s2 == setSource(s1, [index |-> index, reversed |-> reversed])
            s3 == setLoops(s2, IF slide.loop /\ ~reversed THEN 0 - 1 ELSE 1)
            s4 == IF end THEN setPosition(s3, Dur) ELSE s3
            s5 == IF paused THEN pause(s4) ELSE play(s4)
        IN  [s5 EXCEPT !.emitted = @ + 1]

load_slide(p, index, paused, reversed, end) ==
    LET q == [p EXCEPT !.requests = Append(@, index)] IN
    IF index >= N THEN q
    ELSE IF index < 0 THEN q
    ELSE
        LET slide == SlideAt(index)
            s1 == [q EXCEPT !.slide_index = index,
                            !.playingForward = ~reversed]
            s2 == setSource(s1, [index |-> index, reversed |-> reversed])
            s3 == setLoops(s2, IF slide.loop /\ ~reversed THEN 0 - 1 ELSE 1)
            s4 == IF end THEN setPosition(s3, Dur) ELSE s3
            s5 == IF paused THEN pause(s4) ELSE play(s4)
        IN  [s5 EXCEPT !.emitted = @ + 1]

\* next() staging the segment after a loop paused
next_loopPaused(p) ==
    IF isPlayingForward(p) /\ ~isLooping(p)
        THEN setPosition(pause(p), Dur)
    ELSE IF isLooping(p)
        THEN load_slide(p, p.slide_index + 1, TRUE, FALSE, FALSE)
    ELSE IF isPlayingBackward(p)
        THEN load_slide(p, p.slide_index + 1, TRUE, FALSE, FALSE)
    ELSE IF p.mediaStatus = "EndOfMedia"
        THEN load_slide(p, p.slide_index + 1, FALSE, FALSE, FALSE)
    ELSE IF p.position = 0
        THEN load_slide(p, p.slide_index, FALSE, FALSE, FALSE)
    ELSE IF p.position = Dur
        THEN load_slide(p, p.slide_index + 1, FALSE, FALSE, FALSE)
    ELSE play(p)

\* next() treating a looping segment like any other one playing forward
next_noLoopRule(p) ==
    IF isPlayingForward(p)
        THEN setPosition(pause(p), Dur)
    ELSE IF isPlayingBackward(p)
        THEN load_slide(p, p.slide_index + 1, TRUE, FALSE, FALSE)
    ELSE IF p.mediaStatus = "EndOfMedia"
        THEN load_slide(p, p.slide_index + 1, FALSE, FALSE, FALSE)
    ELSE IF p.position = 0
        THEN load_slide(p, p.slide_index, FALSE, FALSE, FALSE)
    ELSE IF p.position = Dur
        THEN load_slide(p, p.slide_index + 1, FALSE, FALSE, FALSE)
    ELSE play(p)

\* next() advancing at once instead of finishing the running transition
next_noFinishRule(p) ==
    IF isPlayingForward(p)
        THEN load_slide(p, p.slide_index + 1, FALSE, FALSE, FALSE)
    ELSE IF isPlayingBackward(p)
        THEN load_slide(p, p.slide_index + 1, TRUE, FALSE, FALSE)
    ELSE IF p.mediaStatus = "EndOfMedia"
        THEN load_slide(p, p.slide_index + 1, FALSE, FALSE, FALSE)
    ELSE IF p.position = 0
        THEN load_slide(p, p.slide_index, FALSE, FALSE, FALSE)
    ELSE IF p.position = Dur
        THEN load_slide(p, p.slide_index + 1, FALSE, FALSE, FALSE)
    ELSE play(p)

next(p) ==
    IF isPlayingForward(p) /\ ~isLooping(p)
        THEN setPosition(pause(p), Dur)
    ELSE IF isLooping(p)
        THEN load_slide(p, p.slide_index + 1, FALSE, FALSE, FALSE)
    ELSE IF isPlayingBackward(p)
        THEN load_slide(p, p.slide_index + 1, TRUE, FALSE, FALSE)
    ELSE IF p.mediaStatus = "EndOfMedia"
        THEN load_slide(p, p.slide_index + 1, FALSE, FALSE, FALSE)
    ELSE IF p.position = 0
        THEN load_slide(p, p.slide_index, FALSE, FALSE, FALSE)
    ELSE IF p.position = Dur
        THEN load_slide(p, p.slide_index + 1, FALSE, FALSE, FALSE)
    ELSE play(p)

\* previous() with the boundary test off by one
previous_offByOne(p) ==
    IF isPlaying(p) THEN
        IF SlideAt(p.slide_index).loop THEN
            LET p1 == pause(p)
                rev_position == Dur - p1.position
            IN  setPosition(load_slide(p1, p1.slide_index, FALSE, TRUE, FALSE),
                            rev_position)
        ELSE load_slide(p, p.slide_index, TRUE, FALSE, FALSE)
    ELSE IF p.slide_index >= 0 THEN
        IF p.mediaStatus = "EndOfMedia" THEN
            LET q == load_slide(p, p.slide_index, FALSE, TRUE, FALSE)
            IN  [q EXCEPT !.slide_index = @ - 1]
        ELSE
            LET q == load_slide(p, p.slide_index - 1, FALSE, TRUE, FALSE)
            IN  [q EXCEPT !.slide_index = @ - 1]
    ELSE p

\* previous() staging the reverse asset paused when a segment was pre-staged
previous_stagedPaused(p) ==
    IF isPlaying(p) THEN
        IF SlideAt(p.slide_index).loop THEN
            LET p1 == pause(p)
                rev_position == Dur - p1.position
            IN  setPosition(load_slide(p1, p1.slide_index, FALSE, TRUE, FALSE),
                            rev_position)
        ELSE load_slide(p, p.slide_index, TRUE, FALSE, FALSE)
    ELSE IF p.slide_index > 0 THEN
        IF p.mediaStatus = "EndOfMedia" THEN
            LET q == load_slide(p, p.slide_index, FALSE, TRUE, FALSE)
            IN  [q EXCEPT !.slide_index = @ - 1]
        ELSE
            LET q == load_slide(p, p.slide_index - 1, TRUE, TRUE, FALSE)
            IN  [q EXCEPT !.slide_index = @ - 1]
    ELSE p

\* previous() not telling a finished medium from a pre-staged one
previous_noEndCase(p) ==
    IF isPlaying(p) THEN
        IF SlideAt(p.slide_index).loop THEN
            LET p1 == pause(p)
                rev_position == Dur - p1.position
            IN  setPosition(load_slide(p1, p1.slide_index, FALSE, TRUE, FALSE),
                            rev_position)
        ELSE load_slide(p, p.slide_index, TRUE, FALSE, FALSE)
    ELSE IF p.slide_index > 0 THEN
        IF FALSE THEN
            LET q == load_slide(p, p.slide_index, FALSE, TRUE, FALSE)
            IN  [q EXCEPT !.slide_index = @ - 1]
        ELSE
            LET q == load_slide(p, p.slide_index - 1, FALSE, TRUE, FALSE)
            IN  [q EXCEPT !.slide_index = @ - 1]
    ELSE p

\* previous() from a finished medium forgetting to step the index back
previous_noDecrement(p) ==
    IF isPlaying(p) THEN
        IF SlideAt(p.slide_index).loop THEN
            LET p1 == pause(p)
                rev_position == Dur - p1.position
            IN  setPosition(load_slide(p1, p1.slide_index, FALSE, TRUE, FALSE),
                            rev_position)
        ELSE load_slide(p, p.slide_index, TRUE, FALSE, FALSE)
    ELSE IF p.slide_index > 0 THEN
        IF p.mediaStatus = "EndOfMedia" THEN
            LET q == load_slide(p, p.slide_index, FALSE, TRUE, FALSE)
            IN  [q EXCEPT !.slide_index = @]
        ELSE
            LET q == load_slide(p, p.slide_index - 1, FALSE, TRUE, FALSE)
            IN  [q EXCEPT !.slide_index = @ - 1]
    ELSE p

\* previous() mirroring the position it reads after the reverse load
previous_revAfterLoad(p) ==
    IF isPlaying(p) THEN
        IF SlideAt(p.slide_index).loop THEN
            LET p1 == load_slide(pause(p), p.slide_index, FALSE, TRUE, FALSE)
                rev_position == Dur - p1.position
            IN  setPosition(p1, rev_position)
        ELSE load_slide(p, p.slide_index, TRUE, FALSE, FALSE)
    ELSE IF p.slide_index > 0 THEN
        IF p.mediaStatus = "EndOfMedia" THEN
            LET q == load_slide(p, p.slide_index, FALSE, TRUE, FALSE)
            IN  [q EXCEPT !.slide_index = @ - 1]
        ELSE
            LET q == load_slide(p, p.slide_index - 1, FALSE, TRUE, FALSE)
            IN  [q EXCEPT !.slide_index = @ - 1]
    ELSE p

previous(p) ==
    IF isPlaying(p) THEN
        IF SlideAt(p.slide_index).loop THEN
            LET p1 == pause(p)
                rev_position == Dur - p1.position
            IN  setPosition(load_slide(p1, p1.slide_index, FALSE, TRUE, FALSE),
                            rev_position)
        ELSE load_slide(p, p.slide_index, TRUE, FALSE, FALSE)
    ELSE IF p.slide_index > 0 THEN
        IF p.mediaStatus = "EndOfMedia" THEN
            LET q == load_slide(p, p.slide_index, FALSE, TRUE, FALSE)
            IN  [q EXCEPT !.slide_index = @ - 1]
        ELSE
            LET q == load_slide(p, p.slide_index - 1, FALSE, TRUE, FALSE)
            IN  [q EXCEPT !.slide_index = @ - 1]
    ELSE p

\* media_finished staging the following segment playing instead of paused
media_finished_nextPlaying(p) ==
    LET p1 == IF ~SlideAt(p.slide_index).loop \/ ~p.playingForward
                  THEN setLoops(p, 1) ELSE p
    IN  IF SlideAt(p1.slide_index).auto_next /\ p1.playingForward
            THEN next(p1)
        ELSE IF p1.slide_index = N - 1 /\ exit_after_last_slide
            THEN [p1 EXCEPT !.terminated = TRUE]
        ELSE IF ~p1.playingForward /\ SlideAt(p1.slide_index).loop
            THEN load_slide(p1, p1.slide_index, TRUE, FALSE, FALSE)
        ELSE load_slide(p1, p1.slide_index + 1, FALSE, FALSE, FALSE)

\* media_finished testing auto_next without the direction
media_finished_autoAnyDirection(p) ==
    LET p1 == IF ~SlideAt(p.slide_index).loop \/ ~p.playingForward
                  THEN setLoops(p, 1) ELSE p
    IN  IF SlideAt(p1.slide_index).auto_next
            THEN next(p1)
        ELSE IF p1.slide_index = N - 1 /\ exit_after_last_slide
            THEN [p1 EXCEPT !.terminated = TRUE]
        ELSE IF ~p1.playingForward /\ SlideAt(p1.slide_index).loop
            THEN load_slide(p1, p1.slide_index, TRUE, FALSE, FALSE)
        ELSE load_slide(p1, p1.slide_index + 1, TRUE, FALSE, FALSE)

\* media_finished playing the auto_next segment again instead of moving on
media_finished_autoReplay(p) ==
    LET p1 == IF ~SlideAt(p.slide_index).loop \/ ~p.playingForward
                  THEN setLoops(p, 1) ELSE p
    IN  IF SlideAt(p1.slide_index).auto_next /\ p1.playingForward
            THEN load_slide(p1, p1.slide_index, FALSE, FALSE, FALSE)
        ELSE IF p1.slide_index = N - 1 /\ exit_after_last_slide
            THEN [p1 EXCEPT !.terminated = TRUE]
        ELSE IF ~p1.playingForward /\ SlideAt(p1.slide_index).loop
            THEN load_slide(p1, p1.slide_index, TRUE, FALSE, FALSE)
        ELSE load_slide(p1, p1.slide_index + 1, TRUE, FALSE, FALSE)

\* media_finished(status) for status = EndOfMedia; every other status
\* falls through the handler without effect
media_finished(p) ==
    LET p1 == IF ~SlideAt(p.slide_index).loop \/ ~p.playingForward
                  THEN setLoops(p, 1) ELSE p
    IN  IF SlideAt(p1.slide_index).auto_next /\ p1.playingForward
            THEN next(p1)
        ELSE IF p1.slide_index = N - 1 /\ exit_after_last_slide
            THEN [p1 EXCEPT !.terminated = TRUE]
        ELSE IF ~p1.playingForward /\ SlideAt(p1.slide_index).loop
            THEN load_slide(p1, p1.slide_index, TRUE, FALSE, FALSE)
        ELSE load_slide(p1, p1.slide_index + 1, TRUE, FALSE, FALSE)

\* Player.toggle_play
toggle_play(p) == IF isPlaying(p) THEN pause(p) ELSE play(p)

\* SlideSequenceElement.mousePressEvent (left button) of the presenter
\* view's list element for segment index; last marks the final element
mousePressEvent(p, index) ==
    LET slide == SlideAt(index)
        last == (index = N - 1)
        play_index == IF ~slide.loop
                          THEN index + (IF ~last THEN 1 ELSE 0)
                          ELSE index
        play_paused == ~slide.loop
    IN  load_slide(p, play_index, play_paused, FALSE, FALSE)

\* the media primitive reaching the end of a non-repeating asset:
\* it stops, reports the end position and EndOfMedia
endOfStream(p) ==
    [p EXCEPT !.playbackState = "StoppedState", !.mediaStatus = "EndOfMedia",
              !.position = Dur]

\* a QMediaPlayer fresh from its constructor, slide_index and
\* playingForward as __init__ assigns them before the first load
NewPlayer(start) ==
    [slide_index |-> start, playingForward |-> TRUE,
     source |-> NoSource, loops |-> 1,
     playbackState |-> "StoppedState", mediaStatus |-> "NoMedia",
     position |-> 0, terminated |-> FALSE, emitted |-> 0, requests |-> <<>>]

\* __init__ dropping the start-paused directive
Construct_ignorePaused(start, paused) ==
    load_slide(NewPlayer(start), start, FALSE, FALSE, FALSE)

\* PresentationPlayer.__init__
Construct(start, paused) ==
    load_slide(NewPlayer(start), start, paused, FALSE, FALSE)

\* ----------------------------------------------------------------- startup
\* present() and load_presentation: from scene groups and the start-at
\* options to the flat segment list, the window resolution and the index
\* the player starts at.

\* Python None of an Optional[int], apart from every number an option carries
None == 0 - 99

Max(a, b) == IF a >= b THEN a ELSE b

Min(a, b) == IF a <= b THEN a ELSE b

\* Python truth value of an Optional[int]
Truthy(v) == v # None /\ v # 0

\* Python slice seq[:n]
SliceTo(seq, n) ==
    LET len == Len(seq)
        stop == IF n < 0 THEN Max(len + n, 0) ELSE Min(n, len)
    IN  SubSeq(seq, 1, stop)

RECURSIVE SumLenSlides(_)
\* sum([len(x.slides) for x in configs])
SumLenSlides(configs) ==
    IF configs = << >> THEN 0
    ELSE Len(Head(configs).slides) + SumLenSlides(Tail(configs))

\* the larger of two resolutions as Python compares tuples
max_resolution_asTuple(a, b) ==
    IF a[1] > b[1] \/ (a[1] = b[1] /\ a[2] >= b[2]) THEN a ELSE b

\* (max(p.resolution[0], resolution[0]), max(p.resolution[1], resolution[1]))
max_resolution(a, b) == << Max(a[1], b[1]), Max(a[2], b[2]) >>

RECURSIVE load_presentation_from(_, _, _)
\* the loop of load_presentation over the remaining scene groups
load_presentation_from(configs, slide_list, resolution) ==
    IF configs = << >>
        THEN [slides |-> slide_list, resolution |-> resolution]
    ELSE LET p == Head(configs)
         IN  load_presentation_from(Tail(configs), slide_list \o p.slides,
                                    max_resolution(p.resolution, resolution))

load_presentation(presentation_configs) ==
    load_presentation_from(presentation_configs, << >>, << 0, 0 >>)

\* the flat start index counting the start scene's own segments too
start_index_inclusive(configs, start_at, sacn, sasn) ==
    LET scene == IF Truthy(start_at[1]) THEN start_at[1] ELSE sacn
        slide == IF Truthy(start_at[2]) THEN start_at[2] ELSE sasn
    IN  [scene |-> scene, slide |-> slide,
         slide_index |-> slide + SumLenSlides(SliceTo(configs, scene + 1))]

\* present(): the start-at pair overrides the two single options, then the
\* flat index is the slide number plus the segments of the scenes before
start_index(configs, start_at, sacn, sasn) ==
    LET scene == IF Truthy(start_at[1]) THEN start_at[1] ELSE sacn
        slide == IF Truthy(start_at[2]) THEN start_at[2] ELSE sasn
    IN  [scene |-> scene, slide |-> slide,
         slide_index |-> slide + SumLenSlides(SliceTo(configs, scene))]

\* ---------------------------------------------------------- presenter view
\* Info.position_changed and SlideList.slide_play_position_updated: the
\* progress indicator the presenter window updates when the media player
\* reports a new position.  duration() of every asset is Dur.

\* no progress update since the last handler
NoUpdate ==
    [index |-> NoIndex, element |-> NoIndex, perchentage |-> 0,
     IndexError |-> FALSE]

\* index = max(min(index, len(self.slide_list_elements)), 0), then
\* slide_list_elements[index].set_position(perchentage): the subscript
\* raises IndexError when the clamped index is not below the length
slide_play_position_updated(index, perchentage) ==
    LET clamped == Max(Min(index, N), 0)
    IN  [index |-> index, element |-> clamped, perchentage |-> perchentage,
         IndexError |-> ~(clamped < N)]

\* position_changed adding one in the forward direction
position_changed_forwardAhead(p, pos) ==
    LET index == p.slide_index + (IF p.playingForward THEN 1 ELSE 0)
        perch == (pos * 100) \div Dur
    IN  slide_play_position_updated(
            index, IF ~p.playingForward THEN 100 - perch ELSE perch)

\* Info.position_changed(position); int() of the non-negative quotient
\* truncates, as \div does
position_changed(p, pos) ==
    LET index == p.slide_index + (IF ~p.playingForward THEN 1 ELSE 0)
        perch == (pos * 100) \div Dur
    IN  slide_play_position_updated(
            index, IF ~p.playingForward THEN 100 - perch ELSE perch)

\* ------------------------------------------------------------- transitions
PlayerVars ==
    <<slides, exit_after_last_slide, start_slide, start_paused, slide_index,
      playingForward, source, loops, playbackState, mediaStatus, position,
      terminated, emitted, requests, lastOp, pre, settledFrom>>

Settled ==
    /\ playbackState = "PausedState"
    /\ position = 0
    /\ playingForward
    /\ source = [index |-> slide_index, reversed |-> FALSE]

Set(r, op, from) ==
    /\ slide_index' = r.slide_index
    /\ playingForward' = r.playingForward
    /\ source' = r.source
    /\ loops' = r.loops
    /\ playbackState' = r.playbackState
    /\ mediaStatus' = r.mediaStatus
    /\ position' = r.position
    /\ terminated' = r.terminated
    /\ emitted' = r.emitted
    /\ requests' = r.requests
    /\ lastOp' = op
    /\ pre' = Cur
    /\ settledFrom' = from
    /\ start_slide' = NoIndex
    /\ start_paused' = FALSE
    /\ view' = NoUpdate
    /\ UNCHANGED <<slides, exit_after_last_slide, startup, commands>>

Init ==
    \E n \in 1..MaxSlides :
      \E sl \in [1..n -> PresentationSlide], st \in 0..(n - 1),
         sp \in BOOLEAN, ex \in BOOLEAN :
        /\ slides = sl
        /\ exit_after_last_slide = ex
        /\ start_slide = st
        /\ start_paused = sp
        /\ LET c == Construct(st, sp)
           IN  /\ slide_index = c.slide_index
               /\ playingForward = c.playingForward
               /\ source = c.source
               /\ loops = c.loops
               /\ playbackState = c.playbackState
               /\ mediaStatus = c.mediaStatus
               /\ position = c.position
               /\ terminated = c.terminated
               /\ emitted = c.emitted
               /\ requests = c.requests
        /\ lastOp = "init"
        /\ pre = NewPlayer(st)
        /\ settledFrom = NoIndex
        /\ startup = [stage |-> "player"]
        /\ view = NoUpdate
        /\ commands = TRUE

PlayerNext ==
    /\ ~terminated
    /\ Set(next(Cur), "next",
           IF lastOp = "previous" THEN settledFrom ELSE NoIndex)

PlayerPrev ==
    /\ ~terminated
    /\ Set(previous(Cur), "previous", IF Settled THEN slide_index ELSE NoIndex)

TogglePlay ==
    /\ ~terminated
    /\ Set(toggle_play(Cur), "toggle_play", NoIndex)

\* end of a non-repeating asset, then the mediaStatusChanged slot
MediaFinished ==
    /\ ~terminated
    /\ playbackState = "PlayingState"
    /\ position = Dur
    /\ loops = 1
    /\ Set(media_finished(endOfStream(Cur)), "media_finished", NoIndex)

\* playback advances
PositionTick ==
    /\ ~terminated
    /\ playbackState = "PlayingState"
    /\ position < Dur
    /\ Set(setPosition(Cur, position + 1), "tick", NoIndex)

\* a repeating asset starts over
LoopRestart ==
    /\ ~terminated
    /\ playbackState = "PlayingState"
    /\ position = Dur
    /\ loops # 1
    /\ Set(setPosition(Cur, 0), "loop", NoIndex)

Next ==
    \/ PlayerNext
    \/ PlayerPrev
    \/ TogglePlay
    \/ MediaFinished
    \/ PositionTick
    \/ LoopRestart

Spec == Init /\ [][Next]_vars

\* the media primitive left to itself in the Qt event loop: playback
\* advances while it is playing, and the end of an asset is reported
NextAuto ==
    \/ MediaFinished
    \/ PositionTick
    \/ LoopRestart

\* the event loop keeps delivering what the primitive has pending
MediaProgress ==
    /\ WF_vars(MediaFinished)
    /\ WF_vars(PositionTick)
    /\ WF_vars(LoopRestart)

\* a presentation started and never given a navigation command
SpecAuto == Init /\ [][NextAuto]_vars /\ MediaProgress

\* the presenter has pressed the last key
LastCommand ==
    /\ ~terminated
    /\ commands
    /\ commands' = FALSE
    /\ UNCHANGED <<PlayerVars, startup, view>>

\* key presses while the presenter is still at the keyboard
KeyNext == commands /\ PlayerNext

KeyPrev == commands /\ PlayerPrev

KeyTogglePlay == commands /\ TogglePlay

NextHandsOff ==
    \/ KeyNext
    \/ KeyPrev
    \/ KeyTogglePlay
    \/ LastCommand
    \/ MediaFinished
    \/ PositionTick
    \/ LoopRestart

\* commands arrive for a while and then stop; nothing obliges the
\* presenter to press a key, the event loop keeps running
SpecHandsOff == Init /\ [][NextHandsOff]_vars /\ MediaProgress

\* the presenter window is open: its slide list takes mouse clicks
MousePress ==
    /\ ~terminated
    /\ \E index \in 0..(N - 1) :
          Set(mousePressEvent(Cur, index), "mousePressEvent", NoIndex)

\* the positionChanged signal of the media player reaches the presenter
\* window's slot once the handler that changed the position has returned
PositionChanged ==
    /\ ~terminated
    /\ position # pre.position
    /\ view' = position_changed(Cur, position)
    /\ UNCHANGED <<PlayerVars, startup, commands>>

NextView ==
    \/ Next
    \/ MousePress
    \/ PositionChanged

SpecView == Init /\ [][NextView]_vars

\* scene groups as the manifests give them: positive resolutions
Resolutions == {<<800, 600>>, <<1920, 600>>, <<800, 1080>>, <<1920, 1080>>}

\* the segment lists of a scene group: one per length, every second
\* segment looping
SceneSlides ==
    {[i \in 1..n |-> [loop |-> (i % 2 = 0), auto_next |-> FALSE]]
     : n \in 0..MaxSceneSlides}

PresentationConfig == [resolution : Resolutions, slides : SceneSlides]

StartNumbers == (0 - 1)..MaxStartAt

InitLoad ==
    /\ \E n \in 1..MaxScenes : \E configs \in [1..n -> PresentationConfig] :
          startup = [stage |-> "present", presentation_configs |-> configs]
    /\ slides = << >>
    /\ exit_after_last_slide = FALSE
    /\ start_slide = 0
    /\ start_paused = FALSE
    /\ slide_index = 0
    /\ playingForward = TRUE
    /\ source = NoSource
    /\ loops = 1
    /\ playbackState = "StoppedState"
    /\ mediaStatus = "NoMedia"
    /\ position = 0
    /\ terminated = FALSE
    /\ emitted = 0
    /\ requests = << >>
    /\ lastOp = "present"
    /\ pre = NewPlayer(0)
    /\ settledFrom = NoIndex
    /\ view = NoUpdate
    /\ commands = TRUE

\* present() up to the test of the flat index: exit(2) when it is negative
ResolveStart ==
    /\ startup.stage = "present"
    /\ \E start_at \in (StartNumbers \cup {None}) \X (StartNumbers \cup {None}),
          sacn \in (0 - 1)..MaxScenes, sasn \in StartNumbers :
          LET r == start_index(startup.presentation_configs, start_at,
                               sacn, sasn)
          IN  startup' =
                [stage |-> IF r.slide_index < 0 THEN "exited" ELSE "resolved",
                 presentation_configs |-> startup.presentation_configs,
                 start_at |-> start_at,
                 start_at_scene_number |-> r.scene,
                 start_at_slide_number |-> r.slide,
                 slide_index |-> r.slide_index,
                 exit_code |-> IF r.slide_index < 0 THEN 2 ELSE 0]
    /\ UNCHANGED <<PlayerVars, view, commands>>

\* Player.__init__: load_presentation, then the player at slide_index
CreatePlayer ==
    /\ startup.stage = "resolved"
    /\ LET l == load_presentation(startup.presentation_configs)
       IN  startup' = [startup EXCEPT !.stage = "player"]
                         @@ [slides |-> l.slides, resolution |-> l.resolution]
    /\ UNCHANGED <<PlayerVars, view, commands>>

NextLoad ==
    \/ ResolveStart
    \/ CreatePlayer

SpecLoad == InitLoad /\ [][NextLoad]_vars

\* ------------------------------------------------------------ properties
\* the Playback State the spec names: index, direction, run state,
\* position and loaded asset
Playback(p) ==
    <<p.slide_index, p.playingForward, p.playbackState, p.position, p.source>>

Forward(i) == [index |-> i, reversed |-> FALSE]

\* the handler found segment i playing forward
PlayingForwardAt(p, i) ==
    /\ isPlayingForward(p)
    /\ p.slide_index = i
    /\ p.source = Forward(i)

\* C1: in every reachable state 0 <= current_index < N.
C1_IndexInRange == 0 <= slide_index /\ slide_index < N

\* C2: previous() followed at once by next() from a settled state (paused at
\* the start of segment i, forward) ends at current_index = i, forward.
C2_RoundTrip ==
    (lastOp = "next" /\ settledFrom # NoIndex)
        => (slide_index = settledFrom /\ playingForward)

ABC ==
    << [loop |-> FALSE, auto_next |-> TRUE],
       [loop |-> TRUE, auto_next |-> FALSE],
       [loop |-> FALSE, auto_next |-> FALSE] >>

LeftLoopB ==
    /\ slides = ABC
    /\ lastOp = "next"
    /\ PlayingForwardAt(pre, 1)
    /\ pre.loops = 0 - 1

\* C3 as stated: in [A(auto_next), B(loop), C] a next() issued while B is
\* looping leaves the engine at C, forward, Paused at start-of-media.
C3_LeaveLoopPaused ==
    LeftLoopB => /\ slide_index = 2
                 /\ source = Forward(2)
                 /\ playingForward
                 /\ playbackState = "PausedState"
                 /\ position = 0

\* C3 amended: in [A(auto_next), B(loop), C] a next() issued while B is
\* looping leaves the engine at C, forward, Playing from start-of-media.
C3_LeaveLoopPlaying ==
    LeftLoopB => /\ slide_index = 2
                 /\ source = Forward(2)
                 /\ playingForward
                 /\ playbackState = "PlayingState"
                 /\ position = 0

C3_Witness == LeftLoopB /\ slide_index = 2

\* end-of-media of segment i (auto_next, not looping) playing forward, the
\* segment after it looping without auto_next
AutoAdvanced(i) ==
    /\ lastOp = "media_finished"
    /\ PlayingForwardAt(pre, i)
    /\ i + 1 < N
    /\ SlideAt(i).auto_next /\ ~SlideAt(i).loop
    /\ SlideAt(i + 1).loop /\ ~SlideAt(i + 1).auto_next

\* a step of the primitive alone (no navigation command) taken while a
\* looping segment without auto_next plays forward
LoopRanOn ==
    /\ lastOp \in {"media_finished", "tick", "loop"}
    /\ PlayingForwardAt(pre, pre.slide_index)
    /\ SlideAt(pre.slide_index).loop
    /\ ~SlideAt(pre.slide_index).auto_next

\* C4: end-of-media alone moves the engine from an auto_next segment to the
\* looping segment after it, playing forward, and from then on current_index
\* changes only by a navigation command.
C4_AutoAdvanceThenStay ==
    /\ \A i \in 0..(N - 1) :
          AutoAdvanced(i) => /\ slide_index = i + 1
                             /\ source = Forward(i + 1)
                             /\ playingForward
                             /\ playbackState = "PlayingState"
                             /\ loops = 0 - 1
    /\ LoopRanOn => /\ slide_index = pre.slide_index
                    /\ source = pre.source
                    /\ lastOp # "media_finished"

C4_Witness ==
    \E i \in 0..(N - 1) : AutoAdvanced(i) /\ slide_index = i + 1 /\ i > 0

\* C5: with exit_after_last_slide, end-of-media of the last segment playing
\* forward, the segment not looping, terminates the process and emits no
\* SlideChanged, whatever the flags of that segment.
C5_ExitAfterLast ==
    ( /\ lastOp = "media_finished"
      /\ exit_after_last_slide
      /\ PlayingForwardAt(pre, N - 1)
      /\ ~SlideAt(N - 1).loop )
        => (terminated /\ emitted = 0)

NextWhileLooping ==
    /\ lastOp = "next"
    /\ isLooping(pre)
    /\ ~SlideAt(pre.slide_index).auto_next

\* C6 as stated: every next() issued while a looping segment with
\* auto_next=false is playing advances current_index by exactly one and the
\* engine no longer plays that segment.
C6_LoopNextAdvances ==
    NextWhileLooping => /\ slide_index = pre.slide_index + 1
                        /\ source = Forward(pre.slide_index + 1)

\* C6 amended: the same for a looping segment that is not the last one; on
\* the last segment the request is out of range and nothing changes.
C6_LoopNextAdvancesInside ==
    NextWhileLooping =>
        IF pre.slide_index + 1 < N
            THEN /\ slide_index = pre.slide_index + 1
                 /\ source = Forward(pre.slide_index + 1)
            ELSE /\ Playback(Cur) = Playback(pre)
                 /\ emitted = 0

C6_Witness ==
    /\ NextWhileLooping
    /\ pre.playingForward
    /\ pre.slide_index + 1 < N
    /\ slide_index = pre.slide_index + 1

FinishedTransition ==
    /\ lastOp = "next"
    /\ isPlayingForward(pre)
    /\ ~isLooping(pre)

\* C7: next() while playing forward on a non-looping segment only pauses and
\* seeks to the end: index and direction unchanged, no load, no SlideChanged,
\* and current_index never exceeds N-1.
C7_NextFinishesTransition ==
    FinishedTransition => /\ slide_index = pre.slide_index
                          /\ playingForward = pre.playingForward
                          /\ source = pre.source
                          /\ playbackState = "PausedState"
                          /\ position = Dur
                          /\ requests = << >>
                          /\ emitted = 0
                          /\ slide_index <= N - 1

C7_Witness == FinishedTransition /\ pre.slide_index = N - 1 /\ pre.position < Dur

PreviousAtFirst ==
    /\ lastOp = "previous"
    /\ pre.slide_index = 0
    /\ ~isPlaying(pre)

\* C8: previous() at current_index = 0 while not playing changes neither
\* index, direction, run state nor asset, loads nothing, emits nothing.
C8_PreviousAtFirstNoOp ==
    PreviousAtFirst => /\ Playback(Cur) = Playback(pre)
                       /\ loops = pre.loops
                       /\ mediaStatus = pre.mediaStatus
                       /\ requests = << >>
                       /\ emitted = 0

C8_Witness == PreviousAtFirst /\ N > 1 /\ playbackState = "PausedState"

\* C9: construction with a valid start index i ends at current_index = i,
\* forward asset of i loaded, Paused iff start-paused, one SlideChanged.
C9_Construction ==
    lastOp = "init" =>
        /\ slide_index = start_slide
        /\ source = Forward(start_slide)
        /\ playingForward
        /\ playbackState = (IF start_paused THEN "PausedState"
                                            ELSE "PlayingState")
        /\ position = 0
        /\ emitted = 1
        /\ requests = << start_slide >>

C9_Witness ==
    lastOp = "init" /\ start_slide = N - 1 /\ start_slide > 0 /\ start_paused

\* a load request outside 0..N-1 leaves the player as it found it
RejectsOutOfRange ==
    \A index \in {0 - 2, 0 - 1, N, N + 1} : \A paused, reversed \in BOOLEAN :
        LET r == load_slide(Cur, index, paused, reversed, FALSE)
        IN  /\ Playback(r) = Playback(Cur)
            /\ r.loops = loops /\ r.mediaStatus = mediaStatus
            /\ r.emitted = 0

NextAtLastIdle == lastOp = "next" /\ pre.slide_index = N - 1 /\ ~isPlaying(pre)

AtEnd(p) ==
    p.mediaStatus = "EndOfMedia" \/ (p.position = Dur /\ p.position # 0)

\* C10 as stated: a load request with index < 0 or >= N is a no-op, so that
\* next() on the last segment while not playing changes no playback state.
C10_OutOfRangeNoOp ==
    /\ RejectsOutOfRange
    /\ NextAtLastIdle => (Playback(Cur) = Playback(pre) /\ emitted = 0)

\* C10 amended: a load request with index < 0 or >= N is a no-op, so that
\* next() on the last segment while not playing and with the media at its
\* end (end-of-stream reported, or a non-zero position = duration) changes no
\* playback state.
C10_OutOfRangeNoOpAtEnd ==
    /\ RejectsOutOfRange
    /\ (NextAtLastIdle /\ AtEnd(pre))
          => /\ Playback(Cur) = Playback(pre)
             /\ requests = << N >>
             /\ emitted = 0

C10_Witness ==
    /\ NextAtLastIdle
    /\ pre.mediaStatus = "EndOfMedia"
    /\ requests = << N >>
    /\ N > 1

Reverse(i) == [index |-> i, reversed |-> TRUE]

InRange(index) == 0 <= index /\ index < N

\* C12: every in-range load emits SlideChanged exactly once, and when it is
\* emitted current_index is the index of the loaded asset's segment and the
\* direction is Backward iff that asset is the reverse one, paused or playing.
C12_LoadConsistent ==
    /\ \A index \in 0..(N - 1) : \A paused, reversed \in BOOLEAN :
          LET r == load_slide(Cur, index, paused, reversed, FALSE)
          IN  /\ r.emitted = 1
              /\ r.slide_index = index
              /\ r.source = [index |-> index, reversed |-> reversed]
              /\ r.playingForward = ~reversed
              /\ r.playbackState = (IF paused THEN "PausedState"
                                              ELSE "PlayingState")
    /\ emitted = Cardinality({k \in DOMAIN requests : InRange(requests[k])})
    /\ (emitted = 1 /\ lastOp # "previous")
          => /\ slide_index = source.index
             /\ playingForward = ~source.reversed

C12_Witness ==
    /\ lastOp = "media_finished"
    /\ emitted = 1
    /\ requests = << pre.slide_index + 1 >>
    /\ playbackState = "PausedState"
    /\ source = Forward(slide_index)

NextLeavesLoop ==
    /\ lastOp = "next"
    /\ isLooping(pre)
    /\ pre.slide_index < N - 1

\* C15: next() while a looping segment at index i < N-1 is playing loads
\* segment i+1 at once, Playing, Forward, from start-of-media.
C15_LoopNextPlays ==
    NextLeavesLoop => /\ requests = << pre.slide_index + 1 >>
                      /\ slide_index = pre.slide_index + 1
                      /\ source = Forward(slide_index)
                      /\ playingForward
                      /\ playbackState = "PlayingState"
                      /\ position = 0
                      /\ emitted = 1

C15_Witness == NextLeavesLoop /\ pre.playingForward /\ pre.position = 1

PreviousFromStaged ==
    /\ lastOp = "previous"
    /\ ~isPlaying(pre)
    /\ pre.slide_index > 0
    /\ pre.mediaStatus # "EndOfMedia"

\* C16 as stated: previous() while not playing at index i > 0, the media not
\* at end-of-stream, loads the reverse asset of segment i-1 in Paused run
\* state and then decrements current_index.
C16_StagedPreviousPaused ==
    PreviousFromStaged => /\ requests = << pre.slide_index - 1 >>
                          /\ source = Reverse(pre.slide_index - 1)
                          /\ ~playingForward
                          /\ playbackState = "PausedState"
                          /\ slide_index = pre.slide_index - 2

\* C16 amended: the same previous() loads the reverse asset of segment i-1
\* in Playing run state (direction Backward) and then decrements
\* current_index, the index set by that load, to i-2.
C16_StagedPreviousPlays ==
    PreviousFromStaged => /\ requests = << pre.slide_index - 1 >>
                          /\ source = Reverse(pre.slide_index - 1)
                          /\ ~playingForward
                          /\ playbackState = "PlayingState"
                          /\ position = 0
                          /\ slide_index = pre.slide_index - 2

C16_Witness == PreviousFromStaged /\ pre.slide_index = 2 /\ pre.position = 0

PreviousFromEnd ==
    /\ lastOp = "previous"
    /\ ~isPlaying(pre)
    /\ pre.slide_index > 0
    /\ pre.mediaStatus = "EndOfMedia"

\* C17: previous() while not playing at index i > 0 with the media at
\* end-of-stream loads the reverse asset of segment i Playing, Backward, and
\* leaves current_index = i-1.
C17_EndPreviousPlaysReverse ==
    PreviousFromEnd => /\ requests = << pre.slide_index >>
                       /\ source = Reverse(pre.slide_index)
                       /\ ~playingForward
                       /\ playbackState = "PlayingState"
                       /\ slide_index = pre.slide_index - 1
                       /\ emitted = 1

C17_Witness == PreviousFromEnd /\ pre.slide_index = N - 1 /\ slide_index = N - 2

\* C18: after a previous() taking the not-playing branch with
\* current_index > 0, the loaded asset is the reverse asset of segment
\* current_index + 1 (current_index as the call leaves it).
C18_ReverseAssetAhead ==
    (lastOp = "previous" /\ ~isPlaying(pre) /\ pre.slide_index > 0)
        => /\ source = Reverse(slide_index + 1)
           /\ ~playingForward
           /\ slide_index < pre.slide_index

C18_Witness ==
    /\ lastOp = "previous" /\ ~isPlaying(pre) /\ pre.slide_index > 0
    /\ pre.mediaStatus = "EndOfMedia"
    /\ source = Reverse(pre.slide_index)

\* C19: previous() while playing, in either direction, a segment that does
\* not loop keeps current_index, loads the forward asset of that segment,
\* Paused at start-of-media, and emits exactly one SlideChanged.
C19_PreviousRewinds ==
    (lastOp = "previous" /\ isPlaying(pre) /\ ~SlideAt(pre.slide_index).loop)
        => /\ slide_index = pre.slide_index
           /\ source = Forward(pre.slide_index)
           /\ playingForward
           /\ playbackState = "PausedState"
           /\ position = 0
           /\ emitted = 1

PreviousInLoop(i) ==
    /\ lastOp = "previous"
    /\ PlayingForwardAt(pre, i)
    /\ SlideAt(i).loop

\* C20: previous() while a looping segment plays forward at position p keeps
\* current_index, loads the reverse asset of that segment for a single
\* playthrough, Backward, and sets the position to duration - p.
C20_LoopPreviousMirrors ==
    \A i \in 0..(N - 1) :
        PreviousInLoop(i) => /\ slide_index = i
                             /\ source = Reverse(i)
                             /\ ~playingForward
                             /\ loops = 1
                             /\ position = Dur - pre.position
                             /\ emitted = 1

C20_Witness ==
    \E i \in 0..(N - 1) : PreviousInLoop(i) /\ pre.position = 1 /\ i > 0

\* index, direction, run state and loaded asset
PlaybackCore(p) ==
    <<p.slide_index, p.playingForward, p.playbackState, p.source>>

\* C11: Playback State changes only through next(), previous(),
\* toggle_play_pause or the end-of-media handler; no action of the presenter
\* view, clicks on its slide list included, changes it or triggers a load.
C11_ViewReadOnly ==
    /\ PlaybackCore(Cur) # PlaybackCore(pre)
          => lastOp \in {"init", "next", "previous", "toggle_play",
                         "media_finished"}
    /\ lastOp = "mousePressEvent" => requests = << >>

Loaded == startup.stage = "player"

\* the largest number of a non-empty finite set
Largest(S) == CHOOSE x \in S : \A y \in S : y <= x

\* C13: the loader's combined resolution is the component-wise maximum of
\* the resolutions of all scene groups, for every non-empty list of groups.
C13_ResolutionIsMax ==
    Loaded =>
        LET configs == startup.presentation_configs
            at == DOMAIN configs
        IN  /\ startup.resolution[1]
                  = Largest({configs[j].resolution[1] : j \in at})
            /\ startup.resolution[2]
                  = Largest({configs[j].resolution[2] : j \in at})

C13_Witness ==
    /\ Loaded
    /\ Len(startup.presentation_configs) = 2
    /\ startup.presentation_configs[1].resolution = <<1920, 600>>
    /\ startup.presentation_configs[2].resolution = <<800, 1080>>
    /\ startup.resolution = <<1920, 1080>>

Resolved == startup.stage \in {"resolved", "exited", "player"}

\* the scene a scene number names, a negative number counting from the end
SceneOf(s, m) == IF s < 0 THEN m + s ELSE s

\* the segments of the scenes before scene number s, as (scene, segment)
SegmentsBefore(configs, s) ==
    {js \in (1..Len(configs)) \X (1..(MaxSceneSlides + 1)) :
        /\ js[1] - 1 < SceneOf(s, Len(configs))
        /\ js[2] <= Len(configs[js[1]].slides)}

PlainFinished(i) ==
    /\ lastOp = "media_finished"
    /\ PlayingForwardAt(pre, i)
    /\ i < N - 1
    /\ ~SlideAt(i).loop /\ ~SlideAt(i).auto_next

\* C21: end-of-media for forward playback of segment i < N-1 with loop=false
\* and auto_next=false leaves current_index = i+1, direction Forward, run
\* state Paused at start-of-media, with exactly one SlideChanged emitted.
C21_PlainEndStagesNext ==
    \A i \in 0..(N - 1) :
        PlainFinished(i) => /\ slide_index = i + 1
                            /\ source = Forward(i + 1)
                            /\ playingForward
                            /\ playbackState = "PausedState"
                            /\ position = 0
                            /\ emitted = 1
                            /\ ~terminated

C21_Witness ==
    \E i \in 0..(N - 1) :
        PlainFinished(i) /\ slide_index = i + 1 /\ exit_after_last_slide

\* the handlers that run without a navigation command: the media
\* primitive's own steps and the completion handler
NoCommand == {"media_finished", "tick", "loop"}

\* a step without a navigation command that left another segment playing
MovedOnItsOwn ==
    /\ lastOp \in NoCommand
    /\ playbackState = "PlayingState"
    /\ (slide_index # pre.slide_index \/ source # pre.source)

\* C22: without a navigation command the engine moves to the next segment
\* in Playing state only by end-of-media in Forward direction on a segment
\* with auto_next; end-of-media during Backward playback never leaves the
\* engine playing, auto_next or not, and a looping segment playing forward
\* is never left without a command.
C22_AutoAdvanceOnlyForward ==
    /\ MovedOnItsOwn => /\ lastOp = "media_finished"
                        /\ pre.playingForward
                        /\ SlideAt(pre.slide_index).auto_next
                        /\ slide_index = pre.slide_index + 1
                        /\ source = Forward(pre.slide_index + 1)
    /\ (lastOp = "media_finished" /\ ~pre.playingForward)
          => playbackState # "PlayingState"
    /\ (lastOp \in NoCommand /\ isPlayingForward(pre)
          /\ SlideAt(pre.slide_index).loop)
          => /\ slide_index = pre.slide_index
             /\ source = pre.source
             /\ lastOp # "media_finished"

C22_Witness ==
    /\ lastOp = "media_finished"
    /\ ~pre.playingForward
    /\ pre.slide_index >= 0
    /\ SlideAt(pre.slide_index).auto_next
    /\ ~SlideAt(pre.slide_index).loop
    /\ slide_index = pre.slide_index + 1
    /\ playbackState = "PausedState"

\* C26: the process terminates only on end-of-media of the last segment
\* playing forward with exit_after_last_slide set; an end-of-media that
\* arrives while the direction is Backward never terminates it.
C26_ExitOnlyForwardLast ==
    /\ terminated => /\ lastOp = "media_finished"
                     /\ exit_after_last_slide
                     /\ PlayingForwardAt(pre, N - 1)
    /\ (lastOp = "media_finished" /\ ~pre.playingForward) => ~terminated

\* the percentage the view forwarded, read in the forward sense, is the
\* whole-number percentage of position / duration
PercentageOfPosition ==
    LET played == IF playingForward THEN view.perchentage
                                    ELSE 100 - view.perchentage
    IN  /\ played * Dur <= 100 * position
        /\ 100 * position < (played + 1) * Dur

\* C23 as stated: on a position update the presenter view addresses the
\* progress indicator of index current_index + 1 when the direction is
\* Forward and of current_index when it is Backward; the percentage is
\* position/duration when Forward and its complement when Backward.
C23_ProgressAhead ==
    view # NoUpdate =>
        /\ view.element = (IF playingForward THEN slide_index + 1
                                              ELSE slide_index)
        /\ PercentageOfPosition

\* C23 amended: on a position update the presenter view addresses the
\* progress indicator of index current_index when the direction is Forward
\* and of current_index + 1 when it is Backward, an index within 0..N that
\* equals N, where the lookup raises IndexError, exactly when the direction
\* is Backward at current_index = N-1; the percentage is position/duration
\* when Forward and its complement when Backward.
C23_ProgressOfPlayingAsset ==
    view # NoUpdate =>
        /\ view.index = (IF playingForward THEN slide_index
                                            ELSE slide_index + 1)
        /\ view.index \in 0..N
        /\ view.element = view.index
        /\ view.IndexError <=> (~playingForward /\ slide_index = N - 1)
        /\ PercentageOfPosition

C23_Witness ==
    /\ view # NoUpdate
    /\ ~playingForward
    /\ view.element = slide_index + 1
    /\ ~view.IndexError
    /\ 0 < view.perchentage /\ view.perchentage < 100

\* C27: the index the presenter view uses, after its clamping, to address
\* a progress indicator on a position update is a valid element index,
\* 0 <= index < N.
C27_ProgressIndexValid ==
    view # NoUpdate =>
        /\ 0 <= view.element /\ view.element < N
        /\ ~view.IndexError

\* a state the engine does not leave on its own: terminated, paused,
\* playing a looping segment forward, or stopped at the end of the last
\* segment
AtRest ==
    \/ terminated
    \/ playbackState = "PausedState"
    \/ /\ playbackState = "PlayingState"
       /\ loops = 0 - 1
       /\ SlideAt(slide_index).loop
       /\ source = Forward(slide_index)
    \/ /\ playbackState = "StoppedState"
       /\ mediaStatus = "EndOfMedia"
       /\ slide_index = N - 1
       /\ source = Forward(N - 1)

\* C24: started with no navigation command ever arriving and end-of-media
\* delivered for every non-repeating asset, the engine eventually reaches,
\* and from then on stays in, a state at rest (paused, playing a looping
\* segment, stopped at the end of the last segment, or terminated), and
\* from some point on no step loads an asset or moves the index.
C24_AutoAdvanceTerminates ==
    /\ <>[]AtRest
    /\ <>[][source' = source /\ slide_index' = slide_index]_vars

C24_Witness ==
    /\ lastOp = "media_finished"
    /\ N > 1
    /\ \A i \in 0..(N - 1) : SlideAt(i).auto_next /\ ~SlideAt(i).loop
    /\ PlayingForwardAt(pre, N - 1)
    /\ playbackState = "StoppedState"
    /\ slide_index = N - 1

\* C25: whenever the engine is playing in Backward direction and no
\* navigation command arrives any more, with end-of-media delivered, it
\* eventually reaches direction Forward with run state Paused at
\* start-of-media.
C25_BackwardEndsStagedForward ==
    (~commands /\ isPlayingBackward(Cur))
        ~> (playingForward /\ playbackState = "PausedState" /\ position = 0)

=============================================================================
